---- MODULE Spec2Model ----
(***************************************************************************)
(* WebSocketManager (src/EventRecorder.js, lines 530-631): the connection  *)
(* manager with its reconnection policy, the heartCheck monitor and the    *)
(* onmessage dispatcher.                                                   *)
(*                                                                         *)
(* The transport is the browser WebSocket.  Its part of the model follows  *)
(* the WHATWG WebSocket interface:                                         *)
(*   - readyState is CONNECTING, OPEN, CLOSING or CLOSED;                  *)
(*   - a connection that fails ("fail the WebSocket connection") sets      *)
(*     readyState to CLOSED and fires error and then close in one task;    *)
(*   - a connection that was established and closes cleanly fires close    *)
(*     only;                                                               *)
(*   - message events are delivered only while readyState is OPEN;         *)
(*   - send() throws InvalidStateError while CONNECTING, transmits while   *)
(*     OPEN and silently discards the data while CLOSING or CLOSED;        *)
(*   - close() on a CONNECTING socket fails the connection, on an OPEN     *)
(*     socket starts the closing handshake, and is a no-op otherwise;      *)
(*   - whether the constructor throws depends on the url and the page      *)
(*     only, so it is the same for every attempt of one manager.           *)
(* Every callback runs to completion (single-threaded event loop), so one  *)
(* action is one callback or one public call.                              *)
(***************************************************************************)
EXTENDS Integers, Sequences, FiniteSets, Bags, TLC

(* ------------------------------ bounds --------------------------------- *)
\* inbound frames delivered over the whole run
MaxMsgs == 2
\* sockets the environment fails or closes in a run that delivers frames
\* (a run without inbound frames is followed up to the retry cap, with no
\* bound on the sockets that fail or close)
MaxDrops == 1
\* requests made through one RecordAPI client
MaxApiCalls == 3

(* ------------------------- program constants --------------------------- *)
\* reconnect(): retry > 10
MaxRetry == 10

AgentName == "A1"
\* names the embedding application may register
OwnNames == {"f"}
\* names every plain object inherits from Object.prototype
InheritedNames == {"toString"}
Names == OwnNames \cup InheritedNames
Handlers == {"h1", "h2"}
NoHandler == "none"
Params == {"p1", "p2"}
Results == {"ok", "r2"}
\* request identifiers the server uses
Ids == {7, 8}

\* ws === null
NullWs == 0

(* ------------------------------- frames -------------------------------- *)
NoFrame == [kind |-> "none", msg_type |-> "-", id |-> 0, func_name |-> "-", params |-> "-"]
\* the bare text pong
Pong == [kind |-> "pong", msg_type |-> "-", id |-> 0, func_name |-> "-", params |-> "-"]
\* a text that is neither pong nor JSON
Garbage == [kind |-> "garbage", msg_type |-> "-", id |-> 0, func_name |-> "-", params |-> "-"]
ToolRequests ==
    [kind : {"json"}, msg_type : {"tools"}, id : Ids, func_name : Names, params : Params]
\* envelopes of another message kind, naming a possibly registered function
OtherEnvelopes ==
    [kind : {"json"}, msg_type : {"other"}, id : {7}, func_name : OwnNames, params : {"p1"}]
InboundFrames == {Pong, Garbage} \cup ToolRequests \cup OtherEnvelopes

IntroFrame == [msg_type |-> "first_conn", agent |-> AgentName, id |-> 0, func_result |-> "-"]
PingFrame == [msg_type |-> "ping", agent |-> "-", id |-> 0, func_result |-> "-"]
ResponseFrame(id, result) ==
    [msg_type |-> "tools_result", agent |-> AgentName, id |-> id, func_result |-> result]

\* a pending invocation: the request's id, which the then() callback closes
\* over, and the socket the request arrived on
NoCall == [id |-> 0, sock |-> 0]

(* ------------------------------- state --------------------------------- *)
VARIABLES
    lockReconnect,   \* let lockReconnect
    retry,           \* let retry
    ws,              \* let ws: index into socks, NullWs for null
    isClosed,        \* let isClosed
    funcMap,         \* the funcMap argument: own name -> handler or NoHandler
    socks,           \* every WebSocket constructed so far
    reconnectTimers, \* pending setTimeout callbacks of reconnect()
    heartTimers,     \* pending setTimeout callbacks of heartCheck
    calls,           \* bag of handler invocations whose promise is pending
    ctorThrows,      \* new WebSocket(wsUrl) throws
    attempts,        \* number of createWebSocket() calls so far
    msgs,            \* number of inbound frames delivered so far
    drops,           \* number of sockets that failed or closed so far, up to MaxDrops + 1
    windows,         \* heartbeat timers expired since heartCheck was last restarted
    everOpen,        \* some socket has reached OPEN
    lastAdd,         \* per name, the handler of the latest registration
    step,            \* the callback or call that ran last
    invoked,         \* handlers it invoked, with their argument
    out,             \* frames transmitted by it, in order
    raised,          \* it ended in an uncaught exception
    api              \* one RecordAPI client: its closure variable and its last request

vars == <<lockReconnect, retry, ws, isClosed, funcMap, socks, reconnectTimers,
          heartTimers, calls, ctorThrows, attempts, msgs, drops, windows, everOpen,
          lastAdd,
          step, invoked, out, raised, api>>

NoStep == [act |-> "construct", sock |-> 0, frame |-> NoFrame, name |-> "-",
           handler |-> "-", call |-> NoCall, result |-> "-"]
Step(a) == [NoStep EXCEPT !.act = a]

\* the manager's state as one value, at the start of a callback
Cur == [lockReconnect |-> lockReconnect, retry |-> retry, ws |-> ws,
        isClosed |-> isClosed, funcMap |-> funcMap, socks |-> socks,
        reconnectTimers |-> reconnectTimers, heartTimers |-> heartTimers,
        calls |-> calls, attempts |-> attempts, windows |-> windows,
        invoked |-> <<>>, out |-> <<>>, raised |-> FALSE]

Apply(s) ==
    /\ lockReconnect' = s.lockReconnect
    /\ retry' = s.retry
    /\ ws' = s.ws
    /\ isClosed' = s.isClosed
    /\ funcMap' = s.funcMap
    /\ socks' = s.socks
    /\ reconnectTimers' = s.reconnectTimers
    /\ heartTimers' = s.heartTimers
    /\ calls' = s.calls
    /\ attempts' = s.attempts
    /\ windows' = s.windows
    /\ invoked' = s.invoked
    /\ out' = s.out
    /\ raised' = s.raised

(* --------------------------- the transport ----------------------------- *)
\* established: the opening handshake has completed and the connection is
\* still up, so the socket can end with a clean close
NewSock == [readyState |-> "CONNECTING", established |-> FALSE]

SetReadyState(s, t, rs) ==
    [s EXCEPT !.socks[t] = [readyState |-> rs,
                            established |-> rs # "CLOSED" /\ @.established]]

\* WebSocket.prototype.send on the socket ws refers to
wsSend(s, frame) ==
    IF s.ws = NullWs \/ s.socks[s.ws].readyState = "CONNECTING"
    THEN [s EXCEPT !.raised = TRUE]
    ELSE IF s.socks[s.ws].readyState = "OPEN"
         THEN [s EXCEPT !.out = Append(@, [sock |-> s.ws, frame |-> frame])]
         ELSE s

\* WebSocket.prototype.close on the socket ws refers to
wsClose(s) ==
    IF s.ws = NullWs
    THEN [s EXCEPT !.raised = TRUE]
    ELSE IF s.socks[s.ws].readyState \in {"CONNECTING", "OPEN"}
         THEN SetReadyState(s, s.ws, "CLOSING")
         ELSE s

(* ----------------------------- reconnect ------------------------------- *)
\* reconnect() without its reentrancy guard
reconnect_NoLock(s) ==
    LET s1 == [s EXCEPT !.retry = @ + 1]
    IN  IF s1.retry > MaxRetry
        THEN s1
        ELSE [s1 EXCEPT !.lockReconnect = TRUE, !.reconnectTimers = @ + 1]

reconnect(s) ==
    LET s1 == [s EXCEPT !.retry = @ + 1]
    IN  IF s1.lockReconnect \/ s1.retry > MaxRetry
        THEN s1
        ELSE [s1 EXCEPT !.lockReconnect = TRUE, !.reconnectTimers = @ + 1]

createWebSocket(s) ==
    LET s1 == [s EXCEPT !.attempts = @ + 1]
    IN  IF ctorThrows
        THEN reconnect(s1)
        ELSE [s1 EXCEPT !.socks = Append(@, NewSock), !.ws = Len(s.socks) + 1]

\* the reconnect callback without lockReconnect = false
reconnectCallback_KeepsLock(s) ==
    createWebSocket([s EXCEPT !.reconnectTimers = @ - 1])

\* the callback reconnect() hands to setTimeout
reconnectCallback(s) ==
    LET s1 == createWebSocket([s EXCEPT !.reconnectTimers = @ - 1])
    IN  [s1 EXCEPT !.lockReconnect = FALSE]

(* ----------------------------- heartCheck ------------------------------ *)
\* a pending timer: what it does, the value of ws when it was armed, and
\* whether heartCheck.timeoutObj / serverTimeoutObj still holds its handle
HeartTimer(k, o) == [kind |-> k, owner |-> o, held |-> TRUE]

Unheld(timers, k) ==
    {IF tm.kind = k THEN [tm EXCEPT !.held = FALSE] ELSE tm : tm \in timers}

\* reset() that forgets clearTimeout(this.serverTimeoutObj)
heartReset_ProbeOnly(s) ==
    [s EXCEPT !.heartTimers = {tm \in @ : ~(tm.held /\ tm.kind = "probe")}]

heartReset(s) == [s EXCEPT !.heartTimers = {tm \in @ : ~tm.held}]

heartStart(s) ==
    [s EXCEPT !.heartTimers = Unheld(@, "probe") \cup {HeartTimer("probe", s.ws)},
              !.windows = 0]

\* heartCheck.start() alone, without reset()
heartRestart_NoReset(s) == heartStart(s)

\* heartCheck.reset().start()
heartRestart(s) == heartStart(heartReset(s))

\* the probe callback without the nested setTimeout
probeCallback_NoForce(s, tm) ==
    wsSend([s EXCEPT !.heartTimers = @ \ {tm}, !.windows = @ + 1], PingFrame)

\* the callback start() hands to setTimeout
probeCallback(s, tm) ==
    LET s1 == [s EXCEPT !.heartTimers = @ \ {tm}, !.windows = @ + 1]
        s2 == wsSend(s1, PingFrame)
    IN  IF s2.raised
        THEN s2
        ELSE [s2 EXCEPT !.heartTimers = Unheld(@, "force") \cup {HeartTimer("force", s.ws)}]

\* the callback the probe callback hands to setTimeout
forceCallback(s, tm) ==
    wsClose([s EXCEPT !.heartTimers = @ \ {tm}, !.windows = @ + 1])

(* --------------------------- initEventHandle --------------------------- *)
onclose(s) == reconnect(s)

onerror(s) == reconnect(s)

\* onopen that only restarts the heartbeat
onopen_NoIntro(s) == heartRestart(s)

onopen(s) == wsSend(heartRestart(s), IntroFrame)

\* data.func_name in funcMap
Registered(fm, n) == n \in DOMAIN fm /\ fm[n] # NoHandler

InFuncMap(fm, n) == Registered(fm, n) \/ n \in InheritedNames

\* onmessage of a dispatcher that takes no request while a handler is pending
onmessage_Serial(s, t, f) ==
    IF s.calls # EmptyBag /\ f.kind = "json" THEN heartRestart(s)
    ELSE LET s1 == heartRestart(s)
         IN  IF f.kind = "json" /\ f.msg_type = "tools" /\ Registered(s1.funcMap, f.func_name)
             THEN [s1 EXCEPT
                       !.invoked = Append(@, [handler |-> s1.funcMap[f.func_name],
                                              params |-> f.params]),
                       !.calls = @ (+) SetToBag({[id |-> f.id, sock |-> t]})]
             ELSE s1

onmessage(s, t, f) ==
    LET s1 == heartRestart(s)
    IN  IF f.kind = "pong" THEN s1
        ELSE IF f.kind = "garbage" THEN [s1 EXCEPT !.raised = TRUE]
        ELSE IF f.msg_type = "tools" /\ InFuncMap(s1.funcMap, f.func_name)
             THEN IF Registered(s1.funcMap, f.func_name)
                  THEN [s1 EXCEPT
                            !.invoked = Append(@, [handler |-> s1.funcMap[f.func_name],
                                                   params |-> f.params]),
                            !.calls = @ (+) SetToBag({[id |-> f.id, sock |-> t]})]
                  ELSE [s1 EXCEPT !.raised = TRUE]
             ELSE s1

\* the then() callback with a response that lacks the request's id
thenCallback_NoId(s, c, result) == wsSend(s, ResponseFrame(0, result))

\* the callback onmessage hands to then()
thenCallback(s, c, result) == wsSend(s, ResponseFrame(c.id, result))

(* --------------------------- public methods ---------------------------- *)
close(s) ==
    LET s1 == [s EXCEPT !.isClosed = TRUE]
    IN  IF s1.ws # NullWs
        THEN [wsClose(s1) EXCEPT !.ws = NullWs]
        ELSE s1

status ==
    IF ws # NullWs THEN socks[ws].readyState ELSE "CLOSED"

\* addFunc that keeps an existing registration
addFunc_FirstWins(s, name, func) ==
    IF Registered(s.funcMap, name) THEN s ELSE [s EXCEPT !.funcMap[name] = func]

addFunc(s, name, func) == [s EXCEPT !.funcMap[name] = func]

(* ------------------------------ RecordAPI ------------------------------ *)
\* A URL is the sequence of its pieces; request parameters are a sequence of
\* key/value pairs, in the object's property order.
ApiPath == "/api/record"
BaseUrls == {<<"http://h">>, <<"http://h", "?", "t=1">>}
RequestParams ==
    {<<>>, <<[k |-> "a", v |-> "1"]>>, <<[k |-> "a", v |-> "1"], [k |-> "b", v |-> "2"]>>,
     <<[k |-> "c", v |-> "3"]>>}
Methods == {"GET", "POST", "DELETE"}
NoRequest == [method |-> "-", url |-> <<>>, body |-> <<>>]

\* String.prototype.includes for a one-character piece
Includes(url, piece) == \E i \in 1..Len(url) : url[i] = piece

\* new URLSearchParams(requestParams).toString(): k=v pairs joined by &
RECURSIVE URLSearchParamsToString(_)
URLSearchParamsToString(p) ==
    IF p = <<>> THEN <<>>
    ELSE IF Len(p) = 1 THEN <<p[1].k, "=", p[1].v>>
    ELSE <<p[1].k, "=", p[1].v, "&">> \o URLSearchParamsToString(Tail(p))

\* JSON.stringify(requestParams)
RECURSIVE JSONStringifyPairs(_)
JSONStringifyPairs(p) ==
    IF p = <<>> THEN <<>>
    ELSE IF Len(p) = 1 THEN <<p[1].k, ":", p[1].v>>
    ELSE <<p[1].k, ":", p[1].v, ",">> \o JSONStringifyPairs(Tail(p))

JSONStringify(p) == <<"{">> \o JSONStringifyPairs(p) \o <<"}">>

\* the client RecordAPI(baseUrl) returns, before any request
RecordAPI(baseUrl) ==
    [base |-> baseUrl, baseUrl |-> baseUrl, params |-> <<>>, request |-> NoRequest,
     outcome |-> "-", n |-> 0]

\* requestEventRecordsApi(method, requestParams); ok is response.ok
requestEventRecordsApi(a, method, requestParams, ok) ==
    LET baseUrl == IF method # "GET" THEN a.baseUrl
                   ELSE a.baseUrl \o <<IF Includes(a.baseUrl, "?") THEN "&" ELSE "?">>
                                  \o URLSearchParamsToString(requestParams)
    IN  [a EXCEPT !.baseUrl = baseUrl,
                  !.params = requestParams,
                  !.request = [method |-> method, url |-> baseUrl \o <<ApiPath>>,
                               body |-> IF method # "GET" THEN JSONStringify(requestParams)
                                        ELSE <<>>],
                  !.outcome = IF ok THEN "resolved" ELSE "rejected",
                  !.n = @ + 1]

Get(a, requestParams, ok) == requestEventRecordsApi(a, "GET", requestParams, ok)
Insert(a, requestParams, ok) == requestEventRecordsApi(a, "POST", requestParams, ok)
Delete(a, requestParams, ok) == requestEventRecordsApi(a, "DELETE", requestParams, ok)

(* ------------------------------- Init ---------------------------------- *)
\* the funcMap arguments tried: empty, or every own name bound to h1
InitialMaps == [OwnNames -> {NoHandler}] \cup [OwnNames -> {"h1"}]

Blank(fm) ==
    [lockReconnect |-> FALSE, retry |-> 0, ws |-> NullWs, isClosed |-> FALSE,
     funcMap |-> fm, socks |-> <<>>, reconnectTimers |-> 0, heartTimers |-> {},
     calls |-> EmptyBag, attempts |-> 0, windows |-> 0, invoked |-> <<>>,
     out |-> <<>>, raised |-> FALSE]

\* the state when WebSocketManager(wsUrl, agentName, funcMap) returns
ManagerInit ==
    /\ ctorThrows \in BOOLEAN
    /\ \E fm \in InitialMaps :
         /\ LET s == createWebSocket(Blank(fm))
            IN  /\ lockReconnect = s.lockReconnect
                /\ retry = s.retry
                /\ ws = s.ws
                /\ isClosed = s.isClosed
                /\ funcMap = s.funcMap
                /\ socks = s.socks
                /\ reconnectTimers = s.reconnectTimers
                /\ heartTimers = s.heartTimers
                /\ calls = s.calls
                /\ attempts = s.attempts
                /\ windows = s.windows
                /\ invoked = s.invoked
                /\ out = s.out
                /\ raised = s.raised
         /\ lastAdd = fm
    /\ msgs = 0
    /\ drops = 0
    /\ everOpen = FALSE
    /\ step = NoStep

Init ==
    /\ ManagerInit
    /\ api = RecordAPI(<<"http://h">>)

\* a page that constructs one RecordAPI client and a manager it does not use
InitApi ==
    /\ ManagerInit
    /\ ~ctorThrows
    /\ lastAdd = [n \in OwnNames |-> NoHandler]
    /\ api \in {RecordAPI(b) : b \in BaseUrls}

(* ------------------------------ actions -------------------------------- *)
Socks == 1..Len(socks)

ReconnectTimerFire ==
    /\ reconnectTimers > 0
    /\ Apply(reconnectCallback(Cur))
    /\ step' = Step("reconnectTimer")
    /\ UNCHANGED <<api, ctorThrows, msgs, drops, everOpen, lastAdd>>

TransportOpen(t) ==
    /\ socks[t].readyState = "CONNECTING"
    /\ Apply(onopen([Cur EXCEPT !.socks[t] = [readyState |-> "OPEN", established |-> TRUE]]))
    /\ everOpen' = TRUE
    /\ step' = [Step("open") EXCEPT !.sock = t]
    /\ UNCHANGED <<api, ctorThrows, msgs, drops, lastAdd>>

TransportMessage(t, f) ==
    /\ socks[t].readyState = "OPEN"
    /\ msgs < MaxMsgs
    /\ drops <= MaxDrops
    /\ msgs' = msgs + 1
    /\ Apply(onmessage(Cur, t, f))
    /\ step' = [Step("message") EXCEPT !.sock = t, !.frame = f]
    /\ UNCHANGED <<api, ctorThrows, drops, everOpen, lastAdd>>

\* the environment may still end a socket in this run
CanDrop == msgs = 0 \/ drops < MaxDrops

\* the environment ends a socket
Drop ==
    /\ CanDrop
    /\ drops' = IF drops <= MaxDrops THEN drops + 1 ELSE drops

\* the connection fails: error, then close
TransportFail(t) ==
    /\ socks[t].readyState # "CLOSED"
    /\ Drop
    /\ Apply(onclose(onerror(SetReadyState(Cur, t, "CLOSED"))))
    /\ step' = [Step("fail") EXCEPT !.sock = t]
    /\ UNCHANGED <<api, ctorThrows, msgs, everOpen, lastAdd>>

\* an established connection closes cleanly: close only
TransportClose(t) ==
    /\ socks[t].readyState \in {"OPEN", "CLOSING"}
    /\ socks[t].established
    /\ Drop
    /\ Apply(onclose(SetReadyState(Cur, t, "CLOSED")))
    /\ step' = [Step("closed") EXCEPT !.sock = t]
    /\ UNCHANGED <<api, ctorThrows, msgs, everOpen, lastAdd>>

ProbeTimerFire(tm) ==
    /\ tm.kind = "probe"
    /\ Apply(probeCallback(Cur, tm))
    /\ step' = [Step("probeTimer") EXCEPT !.sock = tm.owner]
    /\ UNCHANGED <<api, ctorThrows, msgs, drops, everOpen, lastAdd>>

ForceTimerFire(tm) ==
    /\ tm.kind = "force"
    /\ Apply(forceCallback(Cur, tm))
    /\ step' = [Step("forceTimer") EXCEPT !.sock = tm.owner]
    /\ UNCHANGED <<api, ctorThrows, msgs, drops, everOpen, lastAdd>>

Without(b, c) == b (-) SetToBag({c})

\* the promise of a pending invocation is fulfilled with result
HandlerResolve(c, result) ==
    /\ Apply(thenCallback([Cur EXCEPT !.calls = Without(@, c)], c, result))
    /\ step' = [Step("resolve") EXCEPT !.call = c, !.result = result]
    /\ UNCHANGED <<api, ctorThrows, msgs, drops, everOpen, lastAdd>>

\* the promise of a pending invocation is rejected: no then() callback runs
HandlerReject(c) ==
    /\ Apply([Cur EXCEPT !.calls = Without(@, c)])
    /\ step' = [Step("reject") EXCEPT !.call = c]
    /\ UNCHANGED <<api, ctorThrows, msgs, drops, everOpen, lastAdd>>

Close ==
    /\ Apply(close(Cur))
    /\ step' = Step("close")
    /\ UNCHANGED <<api, ctorThrows, msgs, drops, everOpen, lastAdd>>

AddFunc(name, func) ==
    /\ Apply(addFunc(Cur, name, func))
    /\ lastAdd' = [lastAdd EXCEPT ![name] = func]
    /\ step' = [Step("addFunc") EXCEPT !.name = name, !.handler = func]
    /\ UNCHANGED <<api, ctorThrows, msgs, drops, everOpen>>

\* the events of the sockets, the timers and the promises
SocketOpens == \E t \in Socks : TransportOpen(t)
FrameArrives == \E t \in Socks : \E f \in InboundFrames : TransportMessage(t, f)
SocketFails == \E t \in Socks : TransportFail(t)
SocketCloses == \E t \in Socks : TransportClose(t)
ProbeExpires == \E tm \in heartTimers : ProbeTimerFire(tm)
ForceExpires == \E tm \in heartTimers : ForceTimerFire(tm)
PromiseResolves == \E c \in BagToSet(calls) : \E r \in Results : HandlerResolve(c, r)
PromiseRejects == \E c \in BagToSet(calls) : HandlerReject(c)
\* the calls of the embedding application
Registers == \E n \in OwnNames : \E h \in Handlers : AddFunc(n, h)

Next ==
    \/ ReconnectTimerFire
    \/ SocketOpens
    \/ FrameArrives
    \/ SocketFails
    \/ SocketCloses
    \/ ProbeExpires
    \/ ForceExpires
    \/ PromiseResolves
    \/ PromiseRejects
    \/ Close
    \/ Registers

Spec == Init /\ [][Next]_vars

\* the browser ends a socket whose close() was called
ClosingCompletes ==
    \E t \in Socks :
        socks[t].readyState = "CLOSING" /\ (TransportFail(t) \/ TransportClose(t))

\* setTimeout runs the reconnect callback, and a closing socket reaches CLOSED
FairSpec == Spec /\ WF_vars(ReconnectTimerFire) /\ WF_vars(ClosingCompletes)

(* -------------------------- RecordAPI actions -------------------------- *)
ManagerVars ==
    <<lockReconnect, retry, ws, isClosed, funcMap, socks, reconnectTimers,
      heartTimers, calls, ctorThrows, attempts, msgs, drops, windows, everOpen,
      lastAdd, step, invoked, out, raised>>

ApiGet(p, ok) ==
    /\ api.n < MaxApiCalls
    /\ api' = Get(api, p, ok)
    /\ UNCHANGED ManagerVars

ApiInsert(p, ok) ==
    /\ api.n < MaxApiCalls
    /\ api' = Insert(api, p, ok)
    /\ UNCHANGED ManagerVars

ApiDelete(p, ok) ==
    /\ api.n < MaxApiCalls
    /\ api' = Delete(api, p, ok)
    /\ UNCHANGED ManagerVars

Gets == \E p \in RequestParams, ok \in BOOLEAN : ApiGet(p, ok)
Inserts == \E p \in RequestParams, ok \in BOOLEAN : ApiInsert(p, ok)
Deletes == \E p \in RequestParams, ok \in BOOLEAN : ApiDelete(p, ok)

NextApi == Gets \/ Inserts \/ Deletes

SpecApi == InitApi /\ [][NextApi]_vars

(* ------------------------------ claims --------------------------------- *)
AllClosed == \A t \in Socks : socks[t].readyState = "CLOSED"

\* C1: close() is terminal: once close() has been called, no step schedules a
\* reconnect timer and no step makes a connection attempt.
C1_CloseIsTerminal ==
    [][isClosed => (reconnectTimers' <= reconnectTimers /\ attempts' = attempts)]_vars

\* C2: at most one reconnect-delay timer is pending in every reachable state.
C2_OneReconnectPending == reconnectTimers <= 1

\* C2 witness: one dead transport has delivered error and close (two calls of
\* reconnect in one task) and one attempt is scheduled.
C2_Witness ==
    /\ step.act = "fail"
    /\ retry >= 2
    /\ reconnectTimers = 1

\* C3: while close() has not been called and retry is below the cap, a
\* transport error schedules exactly one reconnect (none was pending, no
\* attempt is made in the error's own task); an attempt is only ever made by
\* the one pending reconnect timer, one attempt per timer; and a pending
\* reconnect timer is eventually followed by the next attempt, which puts a
\* new socket in CONNECTING.
C3_ReconnectAfterError ==
    /\ [][(step'.act = "fail" /\ ~isClosed' /\ retry < MaxRetry)
            => (/\ reconnectTimers = 0
                /\ reconnectTimers' = 1
                /\ attempts' = attempts)]_vars
    /\ [][(attempts' # attempts \/ step'.act = "reconnectTimer")
            => (/\ step'.act = "reconnectTimer"
                /\ reconnectTimers = 1
                /\ reconnectTimers' = 0
                /\ attempts' = attempts + 1)]_vars
    /\ (reconnectTimers = 1)
          ~> (/\ step.act = "reconnectTimer"
              /\ reconnectTimers = 0
              /\ (~ctorThrows => status = "CONNECTING"))

\* C3 witness: an open transport failed below the cap, its reconnect timer
\* has fired and the new socket is connecting.
C3_Witness ==
    /\ step.act = "reconnectTimer"
    /\ everOpen
    /\ ~isClosed
    /\ retry < MaxRetry
    /\ attempts >= 2
    /\ status = "CONNECTING"

\* C4: when every connection attempt has failed and the manager has come to
\* rest, exactly 11 attempts have been made.
C4_ElevenAttempts ==
    (/\ ~ctorThrows
     /\ ~everOpen
     /\ ~isClosed
     /\ reconnectTimers = 0
     /\ AllClosed) => attempts = MaxRetry + 1

WsOpen == ws # NullWs /\ socks[ws].readyState = "OPEN"

\* C5 (as claimed): when the result of a handler becomes available, exactly
\* one response with the request's id, the agent name and the result is sent.
C5_ResponseSent ==
    step.act = "resolve"
        => (Len(out) = 1 /\ out[1].frame = ResponseFrame(step.call.id, step.result))

\* C5 (amended): a tool request for a registered name invokes the registered
\* handler once with the request's params and sends nothing yet; when the
\* result becomes available, the response (request's id, tools_result, agent
\* name, result) is handed once to the current socket, which transmits it
\* exactly when it is OPEN; a rejected promise sends nothing; and a response
\* is transmitted by no other step.
C5_DispatchAndRespond ==
    [][/\ (/\ step'.act = "message"
           /\ step'.frame.msg_type = "tools"
           /\ Registered(funcMap, step'.frame.func_name))
          => (/\ invoked' = <<[handler |-> funcMap[step'.frame.func_name],
                               params |-> step'.frame.params]>>
              /\ calls' = calls (+) SetToBag({[id |-> step'.frame.id,
                                              sock |-> step'.sock]})
              /\ out' = <<>>)
       /\ step'.act = "resolve"
          => (/\ BagIn(step'.call, calls)
              /\ calls' = calls (-) SetToBag({step'.call})
              /\ invoked' = <<>>
              /\ out' = IF WsOpen
                        THEN <<[sock |-> ws,
                                frame |-> ResponseFrame(step'.call.id, step'.result)]>>
                        ELSE <<>>)
       /\ step'.act = "reject"
          => (/\ calls' = calls (-) SetToBag({step'.call})
              /\ invoked' = <<>>
              /\ out' = <<>>)
       /\ (\E i \in 1..Len(out') : out'[i].frame.msg_type = "tools_result")
          => step'.act = "resolve"]_vars

\* C5 witness: a handler has resolved and its response went out on the
\* session its request arrived on.
C5_Witness ==
    /\ step.act = "resolve"
    /\ step.call.id = 8
    /\ out = <<[sock |-> step.call.sock, frame |-> ResponseFrame(8, step.result)]>>

\* C6: on an open connection a heartbeat timer is always pending; when the
\* probe timer expires the ping frame is sent and the force-close timer is
\* armed; when that expires too the socket is closed by the manager; every
\* close or error signal calls reconnect(); and the force-closed socket does
\* deliver its close signal (in the runs where the environment may still end
\* a socket).
C6_HeartbeatTimeout ==
    /\ [](WsOpen => \E tm \in heartTimers : tm.held /\ tm.owner = ws)
    /\ [][(step'.act = "probeTimer" /\ WsOpen)
            => (/\ out' = <<[sock |-> ws, frame |-> PingFrame]>>
                /\ heartTimers' = {HeartTimer("force", ws)})]_vars
    /\ [][(step'.act = "forceTimer" /\ WsOpen)
            => (ws' = ws /\ socks'[ws].readyState = "CLOSING")]_vars
    /\ [][step'.act \in {"closed", "fail"} => retry' > retry]_vars
    /\ (step.act = "forceTimer" /\ ws # NullWs /\ socks[ws].readyState = "CLOSING" /\ CanDrop)
          ~> (step.act \in {"closed", "fail"})

\* C6 witness: two idle windows have passed on an open connection and the
\* force-close timer has just closed the socket.
C6_Witness ==
    /\ step.act = "forceTimer"
    /\ windows = 2
    /\ ws # NullWs
    /\ step.sock = ws
    /\ socks[ws].readyState = "CLOSING"
    /\ socks[ws].established

\* C7: after any inbound frame exactly one heartbeat timer is pending, a
\* fresh probe timer, and a force-close only ever fires as the second timer
\* to expire since the heartbeat was last restarted.
C7_FrameRestartsHeartbeat ==
    /\ step.act = "message" => (heartTimers = {HeartTimer("probe", ws)} /\ windows = 0)
    /\ step.act = "forceTimer" => windows >= 2

\* C7 witness: a frame that fails JSON.parse has arrived and the probe timer
\* is armed afresh.
C7_Witness ==
    /\ step.act = "message"
    /\ step.frame = Garbage
    /\ raised
    /\ heartTimers = {HeartTimer("probe", ws)}

\* C8: the registry always holds the latest registration of every name, and
\* a tool request for a name is dispatched to the handler of its latest
\* registration.
C8_AddFuncEffective ==
    /\ funcMap = lastAdd
    /\ step.act = "addFunc" => funcMap[step.name] = step.handler
    /\ (/\ step.act = "message"
        /\ step.frame.msg_type = "tools"
        /\ step.frame.func_name \in OwnNames
        /\ lastAdd[step.frame.func_name] # NoHandler)
       => invoked = <<[handler |-> lastAdd[step.frame.func_name],
                       params |-> step.frame.params]>>

\* C8 witness: on the first socket, never reconnected, a request is dispatched
\* to h2, which only addFunc can have registered.
C8_Witness ==
    /\ step.act = "message"
    /\ step.sock = 1
    /\ attempts = 1
    /\ invoked = <<[handler |-> "h2", params |-> "p2"]>>

\* C9: a frame that is pong, a tool request for an unregistered name, or an
\* envelope of another kind invokes nothing, sends nothing and raises nothing.
C9_OthersAreIgnored ==
    (/\ step.act = "message"
     /\ step.frame.kind # "garbage"
     /\ ~(step.frame.msg_type = "tools" /\ Registered(funcMap, step.frame.func_name)))
    => (invoked = <<>> /\ out = <<>> /\ ~raised)

\* C10: once close() has been called, no probe timer and no force-close timer
\* is pending.
C10_CloseCancelsHeartbeat == isClosed => heartTimers = {}

\* C11: when the WebSocket constructor throws, in the first attempt or in a
\* reconnection attempt, and close() has not been called and the retry cap is
\* not exceeded, a further attempt is scheduled.
C11_ThrowSchedulesAttempt ==
    (/\ ctorThrows
     /\ step.act \in {"construct", "reconnectTimer"}
     /\ ~isClosed
     /\ retry <= MaxRetry)
    => reconnectTimers = 1

\* C12: when a socket has just opened the retry counter is 0.
C12_OpenResetsRetry == step.act = "open" => retry = 0

\* C13: the step in which a socket opens transmits exactly one frame, the
\* introduction (first_conn, agent name), on the socket that opened, and no
\* other step transmits an introduction.
C13_IntroOncePerOpen ==
    /\ step.act = "open"
       => (/\ out = <<[sock |-> step.sock, frame |-> IntroFrame]>>
           /\ ~raised)
    /\ (\E i \in 1..Len(out) : out[i].frame.msg_type = "first_conn")
       => step.act = "open"

\* C13 witness: the second socket, made by a reconnection after the first
\* one failed, has opened and the introduction went out on it.
C13_Witness ==
    /\ step.act = "open"
    /\ step.sock = 2
    /\ socks[1].readyState = "CLOSED"
    /\ out = <<[sock |-> 2, frame |-> IntroFrame]>>

\* C14: once close() has been called, status() reports the closed state.
C14_StatusClosedAfterClose == isClosed => status = "CLOSED"

\* C15: every request of a RecordAPI client goes to the constructor's base
\* URL followed by /api/record; a Get adds to that its own parameters as the
\* query string and nothing else; Insert and Delete add nothing.
C15_RequestUrl ==
    api.n > 0
    => \E sep \in {"?", "&"} :
         api.request.url =
            api.base \o <<ApiPath>>
              \o (IF api.request.method = "GET"
                  THEN <<sep>> \o URLSearchParamsToString(api.params)
                  ELSE <<>>)

\* C16: a heartbeat timer armed while one socket was current does nothing to
\* a later socket: when its callback runs after ws has moved on, no frame is
\* transmitted and no socket changes state.
C16_TimerSparesLaterSocket ==
    [][(/\ step'.act \in {"probeTimer", "forceTimer"}
        /\ step'.sock # ws)
       => (socks' = socks /\ out' = <<>>)]_vars

\* C17: when the result of a handler becomes available after close(), or
\* when the socket its request arrived on is no longer the current open one,
\* no frame is transmitted and no error is raised; so a response is only
\* ever transmitted on the socket its request arrived on.
C17_LateResultIsDropped ==
    /\ (/\ step.act = "resolve"
        /\ (isClosed \/ ws # step.call.sock \/ ~WsOpen))
       => (out = <<>> /\ ~raised)
    /\ step.act = "resolve"
       => \A i \in 1..Len(out) : out[i].sock = step.call.sock

\* C18: a tool request that arrives while handlers are still pending is
\* dispatched at once, as one more pending invocation; when a handler
\* completes on an open connection its own response (its request's id, its
\* result) is transmitted in that very step, so responses leave in completion
\* order, and every other pending invocation stays pending.
C18_HandlersDoNotBlock ==
    [][/\ (/\ step'.act = "message"
           /\ step'.frame.msg_type = "tools"
           /\ Registered(funcMap, step'.frame.func_name)
           /\ calls # EmptyBag)
          => (/\ Len(invoked') = 1
              /\ BagCardinality(calls') = BagCardinality(calls) + 1
              /\ \A c \in BagToSet(calls) : BagIn(c, calls'))
       /\ (step'.act = "resolve" /\ WsOpen)
          => /\ Len(out') = 1
             /\ out'[1].frame.id = step'.call.id
             /\ out'[1].frame.func_result = step'.result
       /\ step'.act \in {"resolve", "reject"}
          => /\ BagCardinality(calls') = BagCardinality(calls) - 1
             /\ \A c \in BagToSet(calls) :
                   c # step'.call => CopiesIn(c, calls') = CopiesIn(c, calls)]_vars

\* C18 witness: two requests with different ids were dispatched, one handler
\* has completed and its response went out while the other is still pending.
C18_Witness ==
    /\ step.act = "resolve"
    /\ Len(out) = 1
    /\ out[1].frame.id = step.call.id
    /\ \E c \in BagToSet(calls) : c.id # step.call.id /\ c.sock = step.call.sock

\* C19: at most one probe timer and at most one force-close timer is
\* pending.
C19_OneTimerOfEachKind ==
    /\ Cardinality({tm \in heartTimers : tm.kind = "probe"}) <= 1
    /\ Cardinality({tm \in heartTimers : tm.kind = "force"}) <= 1

\* C19 witness: the heartbeat was restarted by an open, by a frame and, after
\* a reconnection, by a second open, and one timer is pending.
C19_Witness ==
    /\ step.act = "open"
    /\ step.sock = 2
    /\ msgs >= 1
    /\ Cardinality(heartTimers) = 1

\* C20: a socket that dies, signalling error and then close, raises the retry
\* counter by exactly one.
C20_OneIncrementPerFailure ==
    [][step'.act = "fail" => retry' = retry + 1]_vars

\* C21: every frame the manager transmits leaves on the current socket while
\* it is OPEN, and a step that sends (onopen, the probe callback, the then()
\* callback of a handler) never ends in an exception.
C21_SendOnlyWhileOpen ==
    /\ \A i \in 1..Len(out) :
          /\ out[i].sock = ws
          /\ socks[ws].readyState = "OPEN"
    /\ step.act \in {"open", "probeTimer", "resolve"} => ~raised

Live == {t \in Socks : socks[t].readyState \in {"CONNECTING", "OPEN"}}

\* C22: at most one socket is CONNECTING or OPEN, and it is the one ws refers
\* to; a socket is created only when every earlier one is CLOSED; and an
\* error/close signal of one socket changes no other socket and leaves ws
\* where it was.
C22_OneLiveSocket ==
    /\ [](Cardinality(Live) <= 1 /\ \A t \in Live : t = ws)
    /\ [][Len(socks') > Len(socks) => AllClosed]_vars
    /\ [][step'.act \in {"fail", "closed"}
            => (/\ ws' = ws
                /\ Len(socks') = Len(socks)
                /\ \A t \in Socks : t # step'.sock => socks'[t] = socks[t])]_vars

\* C22 witness: the third socket is connecting after two earlier ones died,
\* one of them after it had been open.
C22_Witness ==
    /\ Len(socks) = 3
    /\ Live = {3}
    /\ everOpen
    /\ step.act = "reconnectTimer"

TypeOK ==
    /\ lockReconnect \in BOOLEAN
    /\ retry \in Nat
    /\ ws \in {NullWs} \cup Socks
    /\ reconnectTimers \in Nat
    /\ attempts \in Nat
====
